---- MODULE Spec2Model ----
(***************************************************************************)
(* A model of stencil's generate.py: the template planner, the generation  *)
(* executor, the cleanup executor and the .gitignore registrar, over an    *)
(* abstract filesystem.                                                     *)
(*                                                                         *)
(* Strings are sequences of tokens (a token is a run of characters that    *)
(* the program never looks inside: "README.md", ".j2", "/", "\n", a marker *)
(* line's text).  A resolved path is a sequence of components, each a      *)
(* non-empty string without the "/" token; <<>> is output_base.            *)
(***************************************************************************)
EXTENDS Integers, Sequences, FiniteSets, TLC

VARIABLES
    cfg,        \* the loaded manifest: [templates, packages]
    broken,     \* template sources whose get_template/render raises
    fs,         \* the output tree: [files, dirs], sets of resolved paths
    gitignore,  \* cwd/.gitignore: [exists, content]
    prev,       \* [fs, gitignore] as they were when the last command started
    last,       \* the last command: its arguments and what it reported
    hist        \* what the command before the last contributes to this one

vars == <<cfg, broken, fs, gitignore, prev, last, hist>>

----------------------------------------------------------------------------
(* Bounds of the model. *)

MaxTemplates == 2
MaxPkgs == 2
MaxSeeds == 2
MaxLines == 4

----------------------------------------------------------------------------
(* Strings. *)

GITIGNORE_START == "# >>> stencil >>>"
GITIGNORE_END == "# <<< stencil <<<"
NL == "\n"
SLASH == "/"
STAR == "*"

\* str.removesuffix(suf)
RemoveSuffix(s, suf) ==
    IF Len(s) >= Len(suf) /\ SubSeq(s, Len(s) - Len(suf) + 1, Len(s)) = suf
    THEN SubSeq(s, 1, Len(s) - Len(suf))
    ELSE s

\* str.endswith(suf)
EndsWith(s, suf) ==
    Len(s) >= Len(suf) /\ SubSeq(s, Len(s) - Len(suf) + 1, Len(s)) = suf

\* str.startswith(pre)
StartsWith(s, pre) ==
    Len(s) >= Len(pre) /\ SubSeq(s, 1, Len(pre)) = pre

\* The tokens of the model in the order of their first characters (ASCII);
\* no token is a prefix of another, so comparing token by token is comparing
\* the strings character by character.
TokenOrder ==
    << "\n", "# <<< stencil <<<", "# >>> stencil >>>", "*", "-web", ".html",
       ".j2", ".md", "/", "LICENSE", "Makefile", "README.md", "app",
       "bad", "bundle.zip", "deps.sh", "doc", "gone.sh", "guide", "init.sql",
       "notes.txt", "ops", "scripts", "site.css", "sql", "static", "theme", "u",
       "web.conf" >>

Rank(t) == CHOOSE i \in 1..Len(TokenOrder) : TokenOrder[i] = t

RECURSIVE StrLess(_, _)
StrLess(a, b) ==
    IF b = <<>> THEN FALSE
    ELSE IF a = <<>> THEN TRUE
    ELSE IF Head(a) = Head(b) THEN StrLess(Tail(a), Tail(b))
    ELSE Rank(Head(a)) < Rank(Head(b))

\* sorted(set of strings)
RECURSIVE Sorted(_)
Sorted(S) ==
    IF S = {} THEN <<>>
    ELSE LET m == CHOOSE x \in S : \A y \in S \ {x} : StrLess(x, y)
         IN  <<m>> \o Sorted(S \ {m})

RECURSIVE SplitAcc(_, _, _)
SplitAcc(s, cur, acc) ==
    IF s = <<>> THEN (IF cur = <<>> THEN acc ELSE Append(acc, cur))
    ELSE IF Head(s) = SLASH
         THEN SplitAcc(Tail(s), <<>>, IF cur = <<>> THEN acc ELSE Append(acc, cur))
         ELSE SplitAcc(Tail(s), Append(cur, Head(s)), acc)

\* pathlib: the components of a relative path string; empty components
\* (a doubled or trailing "/") are dropped.
Parts(s) == SplitAcc(s, <<>>, <<>>)

\* (output_base / s).resolve(), relative to output_base
Resolve(s) == Parts(s)

IsPrefixPath(d, p) == Len(d) <= Len(p) /\ SubSeq(p, 1, Len(d)) = d
Under(d, p) == Len(d) < Len(p) /\ SubSeq(p, 1, Len(d)) = d
Parent(p) == SubSeq(p, 1, Len(p) - 1)
Ancestors(p) == { SubSeq(p, 1, k) : k \in 0..(Len(p) - 1) }

----------------------------------------------------------------------------
(* The manifest. *)

NoWhen == [kind |-> "none", names |-> <<>>]
WhenStr(k) == [kind |-> "str", names |-> <<k>>]
WhenList(ks) == [kind |-> "list", names |-> ks]

TReadme == [src |-> <<"README.md", ".j2">>, hasDest |-> FALSE, dest |-> <<>>,
            when |-> NoWhen]
TWeb == [src |-> <<"web.conf", ".j2">>, hasDest |-> FALSE, dest |-> <<>>,
         when |-> WhenStr("has_web")]
TSql == [src |-> <<"init.sql", ".j2">>, hasDest |-> TRUE,
         dest |-> <<"sql", "/", "init.sql">>,
         when |-> WhenList(<<"has_web", "has_mysql">>)]
TMake == [src |-> <<"Makefile">>, hasDest |-> FALSE, dest |-> <<>>,
          when |-> WhenStr("nightly")]
TDocs == [src |-> <<"theme", ".j2">>, hasDest |-> FALSE, dest |-> <<>>,
          when |-> WhenList(<<"has_docs", "package_name">>)]

NoItems == <<>>

\* packages: app (zip, web+mysql, docs, scripts, copied files), ops (doc type,
\* no services, living in app/scripts), and one whose package_type is invalid.
PkgApp ==
    [id |-> "app", hasDir |-> FALSE, dir |-> <<>>,
     package_type |-> "zip", package_name |-> <<"bundle.zip">>,
     services |-> <<"web", "mysql">>,
     docs |-> << <<"guide", ".md">> >>,
     deps_script |-> << [os |-> "linux",
                         scripts |-> << <<"deps.sh">>, <<"gone.sh">> >>] >>,
     copy_files |-> << [isStr |-> TRUE, src |-> <<"static">>,
                        hasDest |-> FALSE, dest |-> <<>>],
                       [isStr |-> FALSE, src |-> <<"LICENSE">>,
                        hasDest |-> TRUE, dest |-> <<"doc", "/", "LICENSE">>] >>]

PkgOps ==
    [id |-> "ops", hasDir |-> TRUE, dir |-> <<"app", "/", "scripts">>,
     package_type |-> "doc", package_name |-> <<>>,
     services |-> <<>>, docs |-> <<>>,
     deps_script |-> NoItems, copy_files |-> NoItems]

PkgBad ==
    [id |-> "bad", hasDir |-> FALSE, dir |-> <<>>,
     package_type |-> "tar", package_name |-> <<>>,
     services |-> <<"web">>, docs |-> <<>>,
     deps_script |-> NoItems, copy_files |-> NoItems]

TemplateCatalog == {TReadme, TWeb, TSql, TMake, TDocs}
PackageCatalog == {PkgApp, PkgOps, PkgBad}

\* sequences without repetition over S, of length at most n
RECURSIVE Arrangements(_, _)
Arrangements(S, n) ==
    IF n = 0 THEN {<<>>}
    ELSE LET shorter == Arrangements(S, n - 1)
         IN  shorter \cup { Append(q, x) : q \in shorter, x \in S }

Distinct(q) == \A i, j \in 1..Len(q) : i # j => q[i] # q[j]

SeqsOver(S, n) == { q \in Arrangements(S, n) : Distinct(q) }

----------------------------------------------------------------------------
(* Context Builder: get_template_context. *)

HasPackage(config, package_id) ==
    /\ config.hasPackages
    /\ \E i \in 1..Len(config.packages) : config.packages[i].id = package_id

\* config.get("packages", {}).get(package_id)
PackageOf(config, package_id) ==
    config.packages[CHOOSE i \in 1..Len(config.packages) :
                        config.packages[i].id = package_id]

\* package.get("dir", package_id)
PkgDir(package) == IF package.hasDir THEN package.dir ELSE <<package.id>>

InSeq(x, q) == \E i \in 1..Len(q) : q[i] = x

\* the checks that raise ValueError
ContextError(package_id, config) ==
    IF ~HasPackage(config, package_id) THEN "unknown"
    ELSE LET package == PackageOf(config, package_id) IN
         IF package.package_type = "" THEN "missing package_type"
         ELSE IF package.package_type \notin {"doc", "zip"} THEN "invalid package_type"
         ELSE IF package.package_type = "zip" /\ package.package_name = <<>>
              THEN "missing package_name"
         ELSE "none"

\* the context mapping, for a package that passes the checks
GetTemplateContext(package_id, config) ==
    LET package == PackageOf(config, package_id) IN
    [package_id   |-> package_id,
     package_name |-> package.package_name,
     package_dir  |-> PkgDir(package),
     package_type |-> package.package_type,
     docs         |-> package.docs,
     has_docs     |-> package.docs # <<>>,
     services     |-> package.services,
     has_web      |-> InSeq("web", package.services),
     has_mysql    |-> InSeq("mysql", package.services),
     has_services |-> Len(package.services) > 0,
     deps_script  |-> package.deps_script,
     copy_files   |-> package.copy_files]

\* bool(context.get(k)): a key the context lacks gives None, which is falsy
Truthy(context, k) ==
    CASE k = "has_web"      -> context.has_web
      [] k = "has_mysql"    -> context.has_mysql
      [] k = "has_services" -> context.has_services
      [] k = "has_docs"     -> context.has_docs
      [] k = "docs"         -> context.docs # <<>>
      [] k = "services"     -> context.services # <<>>
      [] k = "package_name" -> context.package_name # <<>>
      [] k = "deps_script"  -> context.deps_script # <<>>
      [] k = "copy_files"   -> context.copy_files # <<>>
      [] k \in {"package_id", "name", "package_dir", "package_type",
                "package_folder"} -> TRUE
      [] OTHER -> FALSE

----------------------------------------------------------------------------
(* Path Planner: the template list of render_templates. *)

\* tdef.get("dest", src.removesuffix(".j2"))
DestOf(tdef) == IF tdef.hasDest THEN tdef.dest ELSE RemoveSuffix(tdef.src, <<".j2">>)

\* any() where the program has all()
WhenHoldsAny(tdef, context) ==
    \/ tdef.when.kind = "none"
    \/ \E i \in 1..Len(tdef.when.names) : Truthy(context, tdef.when.names[i])

\* `when` absent, or all(context.get(k) for k in when)
WhenHolds(tdef, context) ==
    \/ tdef.when.kind = "none"
    \/ \A i \in 1..Len(tdef.when.names) : Truthy(context, tdef.when.names[i])

RECURSIVE ApplicableTemplates(_, _)
ApplicableTemplates(template_defs, context) ==
    IF template_defs = <<>> THEN <<>>
    ELSE LET tdef == Head(template_defs)
             rest == ApplicableTemplates(Tail(template_defs), context)
         IN  IF WhenHolds(tdef, context)
             THEN <<[src |-> tdef.src, dest |-> DestOf(tdef)]>> \o rest
             ELSE rest

----------------------------------------------------------------------------
(* The filesystem calls the program makes.  Each gives [ok, fs]: ok is      *)
(* FALSE when the call raises, fs is the tree the call leaves behind.       *)

Exists(f, p) == p \in f.files \cup f.dirs

Children(f, d) == { p \in f.files \cup f.dirs : Len(p) = Len(d) + 1 /\ Under(d, p) }

\* Path.mkdir(parents=True, exist_ok=True); a file on the way raises
MkdirP(f, d) ==
    IF \E a \in Ancestors(d) \cup {d} : a \in f.files
    THEN [ok |-> FALSE, fs |-> f]
    ELSE [ok |-> TRUE,
          fs |-> [files |-> f.files, dirs |-> f.dirs \cup Ancestors(d) \cup {d}]]

\* output_path.parent.mkdir(parents=True, exist_ok=True); output_path.write_text(..)
WriteText(f, p) ==
    IF p = <<>> THEN [ok |-> FALSE, fs |-> f]
    ELSE LET m == MkdirP(f, Parent(p)) IN
         IF ~m.ok THEN m
         ELSE IF p \in m.fs.dirs THEN [ok |-> FALSE, fs |-> m.fs]
         ELSE [ok |-> TRUE,
               fs |-> [files |-> m.fs.files \cup {p}, dirs |-> m.fs.dirs]]

\* shutil.copy2(src, dst) of a regular file named base: into dst when dst is
\* a directory, onto dst otherwise
Copy2(f, base, dst) ==
    IF dst \in f.dirs
    THEN IF Append(dst, base) \in f.dirs
         THEN [ok |-> FALSE, fs |-> f]
         ELSE [ok |-> TRUE,
               fs |-> [files |-> f.files \cup {Append(dst, base)}, dirs |-> f.dirs]]
    ELSE IF dst = <<>> \/ Parent(dst) \notin f.dirs
         THEN [ok |-> FALSE, fs |-> f]
         ELSE [ok |-> TRUE, fs |-> [files |-> f.files \cup {dst}, dirs |-> f.dirs]]

\* shutil.rmtree(d)
Rmtree(f, d) ==
    IF d \in f.files THEN [ok |-> FALSE, fs |-> f]
    ELSE [ok |-> TRUE,
          fs |-> [files |-> { p \in f.files : ~IsPrefixPath(d, p) },
                  dirs  |-> { p \in f.dirs : ~IsPrefixPath(d, p) }]]

\* SCRIPT_DIR: the bundled scripts/ and files/ trees (read only)
ScriptDirFS ==
    [files |-> { << <<"scripts">>, <<"deps.sh">> >>,
                 << <<"files">>, <<"LICENSE">> >>,
                 << <<"files">>, <<"static">>, <<"site.css">> >> },
     dirs  |-> { <<>>, << <<"scripts">> >>, << <<"files">> >>,
                 << <<"files">>, <<"static">> >> }]

Rebase(src, dst, p) == dst \o SubSeq(p, Len(src) + 1, Len(p))

\* shutil.copytree(src, dst), src a directory of SCRIPT_DIR, dst not existing
Copytree(f, src, dst) ==
    LET m == MkdirP(f, dst) IN
    IF ~m.ok THEN m
    ELSE [ok |-> TRUE,
          fs |-> [files |-> m.fs.files \cup
                      { Rebase(src, dst, p) : p \in { q \in ScriptDirFS.files : Under(src, q) } },
                  dirs  |-> m.fs.dirs \cup
                      { Rebase(src, dst, p) : p \in { q \in ScriptDirFS.dirs : Under(src, q) } }]]

----------------------------------------------------------------------------
(* Generation Executor.  Each step gives [crash, fs]: crash is TRUE when an *)
(* exception leaves the function.                                           *)

\* the loop of render_templates, writing under --dry-run too
RECURSIVE RenderEachWrites(_, _, _, _, _)
RenderEachWrites(templates, bad, output_dir, dry_run, f) ==
    IF templates = <<>> THEN [crash |-> FALSE, fs |-> f]
    ELSE LET t == Head(templates) IN
         IF t.src \in bad THEN [crash |-> TRUE, fs |-> f]
         ELSE LET w == WriteText(f, output_dir \o Parts(t.dest)) IN
              IF ~w.ok THEN [crash |-> TRUE, fs |-> w.fs]
              ELSE RenderEachWrites(Tail(templates), bad, output_dir, dry_run, w.fs)

\* the loop of render_templates over the selected (src, dest) pairs
RECURSIVE RenderEach(_, _, _, _, _)
RenderEach(templates, bad, output_dir, dry_run, f) ==
    IF templates = <<>> THEN [crash |-> FALSE, fs |-> f]
    ELSE LET t == Head(templates) IN
         IF t.src \in bad THEN [crash |-> TRUE, fs |-> f]
         ELSE IF dry_run
              THEN RenderEach(Tail(templates), bad, output_dir, dry_run, f)
              ELSE LET w == WriteText(f, output_dir \o Parts(t.dest)) IN
                   IF ~w.ok THEN [crash |-> TRUE, fs |-> w.fs]
                   ELSE RenderEach(Tail(templates), bad, output_dir, dry_run, w.fs)

RenderTemplates(template_defs, bad, context, output_dir, dry_run, f) ==
    RenderEach(ApplicableTemplates(template_defs, context), bad, output_dir, dry_run, f)

\* the inner loop of copy_scripts over one OS's script list
RECURSIVE CopyScriptList(_, _, _, _)
CopyScriptList(script_list, scripts_dst, dry_run, f) ==
    IF script_list = <<>> THEN [crash |-> FALSE, fs |-> f]
    ELSE LET script_name == Head(script_list)
             src_file == << <<"scripts">> >> \o Parts(script_name)
             dst_file == scripts_dst \o Parts(script_name)
         IN  IF ~Exists(ScriptDirFS, src_file) \/ dry_run
             THEN CopyScriptList(Tail(script_list), scripts_dst, dry_run, f)
             ELSE LET m == MkdirP(f, scripts_dst) IN
                  IF ~m.ok \/ src_file \in ScriptDirFS.dirs
                  THEN [crash |-> TRUE, fs |-> m.fs]
                  ELSE LET c == Copy2(m.fs, src_file[Len(src_file)], dst_file) IN
                       IF ~c.ok THEN [crash |-> TRUE, fs |-> c.fs]
                       ELSE CopyScriptList(Tail(script_list), scripts_dst, dry_run, c.fs)

RECURSIVE CopyScriptsLoop(_, _, _, _)
CopyScriptsLoop(deps_script, scripts_dst, dry_run, f) ==
    IF deps_script = <<>> THEN [crash |-> FALSE, fs |-> f]
    ELSE LET r == CopyScriptList(Head(deps_script).scripts, scripts_dst, dry_run, f) IN
         IF r.crash THEN r
         ELSE CopyScriptsLoop(Tail(deps_script), scripts_dst, dry_run, r.fs)

CopyScripts(context, output_dir, dry_run, f) ==
    CopyScriptsLoop(context.deps_script, Append(output_dir, <<"scripts">>), dry_run, f)

\* one item of copy_files
CopyItem(item, output_dir, dry_run, f) ==
    LET src_name == item.src
        dst_name == IF item.isStr \/ ~item.hasDest THEN item.src ELSE item.dest
        src_path == << <<"files">> >> \o Parts(src_name)
        dst_path == output_dir \o Parts(dst_name)
    IN  IF ~Exists(ScriptDirFS, src_path) \/ dry_run THEN [crash |-> FALSE, fs |-> f]
        ELSE IF src_path \in ScriptDirFS.dirs
        THEN LET r == IF Exists(f, dst_path) THEN Rmtree(f, dst_path)
                      ELSE [ok |-> TRUE, fs |-> f] IN
             IF ~r.ok THEN [crash |-> TRUE, fs |-> r.fs]
             ELSE LET c == Copytree(r.fs, src_path, dst_path) IN
                  [crash |-> ~c.ok, fs |-> c.fs]
        ELSE LET m == IF dst_path = <<>> THEN [ok |-> FALSE, fs |-> f]
                      ELSE MkdirP(f, Parent(dst_path)) IN
             IF ~m.ok THEN [crash |-> TRUE, fs |-> m.fs]
             ELSE LET c == Copy2(m.fs, src_path[Len(src_path)], dst_path) IN
                  [crash |-> ~c.ok, fs |-> c.fs]

RECURSIVE CopyFilesLoop(_, _, _, _)
CopyFilesLoop(copy_list, output_dir, dry_run, f) ==
    IF copy_list = <<>> THEN [crash |-> FALSE, fs |-> f]
    ELSE LET r == CopyItem(Head(copy_list), output_dir, dry_run, f) IN
         IF r.crash THEN r
         ELSE CopyFilesLoop(Tail(copy_list), output_dir, dry_run, r.fs)

CopyFiles(context, output_dir, dry_run, f) ==
    CopyFilesLoop(context.copy_files, output_dir, dry_run, f)

\* generate_package: status "ok" (returns output_dir), "skip" (returns None)
\* or "crash" (an exception other than the caught ValueError leaves it)
GeneratePackage(config, bad, f, package_id, dry_run) ==
    IF ContextError(package_id, config) # "none" THEN [status |-> "skip", fs |-> f]
    ELSE
    LET context == GetTemplateContext(package_id, config)
        output_dir == Parts(context.package_dir)
        m == IF Exists(f, output_dir) \/ dry_run THEN [ok |-> TRUE, fs |-> f]
             ELSE MkdirP(f, output_dir)
    IN  IF ~m.ok THEN [status |-> "crash", fs |-> m.fs]
        ELSE IF config.templates = <<>> THEN [status |-> "skip", fs |-> m.fs]
        ELSE LET r == RenderTemplates(config.templates, bad, context, output_dir, dry_run, m.fs) IN
             IF r.crash THEN [status |-> "crash", fs |-> r.fs]
             ELSE LET s == CopyScripts(context, output_dir, dry_run, r.fs) IN
                  IF s.crash THEN [status |-> "crash", fs |-> s.fs]
                  ELSE LET c == CopyFiles(context, output_dir, dry_run, s.fs) IN
                       [status |-> IF c.crash THEN "crash" ELSE "ok", fs |-> c.fs]

----------------------------------------------------------------------------
(* Path Planner: get_generated_files. *)

SeqToSet(q) == { q[i] : i \in 1..Len(q) }

\* the template output names: every template's, whatever its `when`
TemplateFiles(config) ==
    { DestOf(config.templates[i]) : i \in 1..Len(config.templates) } \ {<<>>}

\* the copy_files destinations of a package
CopyDest(item) == IF item.isStr \/ ~item.hasDest THEN item.src ELSE item.dest

CopyFileNames(package) ==
    { CopyDest(it) :
        it \in { x \in SeqToSet(package.copy_files) : x.isStr \/ CopyDest(x) # <<>> } }

\* the glob patterns of a package's docs
DocGlobs(package) ==
    { RemoveSuffix(md, <<".md">>) \o <<STAR, ".html">> :
        md \in { d \in SeqToSet(package.docs) : EndsWith(d, <<".md">>) } }

PackageEntries(config, package) ==
    LET names == TemplateFiles(config)
                 \cup CopyFileNames(package)
                 \cup (IF package.deps_script # <<>> THEN { <<"scripts", SLASH>> } ELSE {})
                 \cup DocGlobs(package)
                 \cup (IF package.package_name # <<>> THEN { package.package_name } ELSE {})
    IN  { PkgDir(package) \o <<SLASH>> \o n : n \in names }

\* the set `entries`; the function returns sorted(entries)
GeneratedEntries(config) ==
    IF ~config.hasPackages THEN {}
    ELSE UNION { PackageEntries(config, pk) : pk \in SeqToSet(config.packages) }

GetGeneratedFiles(config) == Sorted(GeneratedEntries(config))

----------------------------------------------------------------------------
(* Cleanup Executor: clean_generated. *)

\* the entries clean keeps for package_id ("" stands for None: all packages)
CleanEntries(config, package_id) ==
    IF package_id = "" THEN GeneratedEntries(config)
    ELSE { e \in GeneratedEntries(config) :
             StartsWith(e, PkgDir(PackageOf(config, package_id)) \o <<SLASH>>) }

\* fnmatch of a name against a pattern with one "*"
GlobMatch(name, pattern) ==
    LET k == CHOOSE i \in 1..Len(pattern) : pattern[i] = STAR
        pre == SubSeq(pattern, 1, k - 1)
        suf == SubSeq(pattern, k + 1, Len(pattern))
    IN  /\ Len(name) >= Len(pre) + Len(suf)
        /\ StartsWith(name, pre)
        /\ EndsWith(name, suf)

\* the paths one entry resolves to: itself, or the matches of its glob
EntryPaths(f, entry) ==
    LET path == Resolve(entry) IN
    IF path # <<>> /\ InSeq(STAR, path[Len(path)])
    THEN { p \in Children(f, Parent(path)) : GlobMatch(p[Len(p)], path[Len(path)]) }
    ELSE { path }

\* the paths of paths_with_depth
CleanPaths(f, entries) == UNION { EntryPaths(f, e) : e \in entries }

\* shutil.rmtree where the program has rmdir on an empty directory
RemovePathRecursive(f, path, dry_run) ==
    IF ~Exists(f, path) \/ dry_run THEN f
    ELSE IF path \in f.files
         THEN [files |-> f.files \ {path}, dirs |-> f.dirs]
         ELSE Rmtree(f, path).fs

\* the body of the removal loop for one path
RemovePath(f, path, dry_run) ==
    IF ~Exists(f, path) \/ dry_run THEN f
    ELSE IF path \in f.files
         THEN [files |-> f.files \ {path}, dirs |-> f.dirs]
         ELSE IF Children(f, path) = {}
              THEN [files |-> f.files, dirs |-> f.dirs \ {path}]
              ELSE f

\* the removal loop: deepest paths first.  Paths of equal depth are taken in
\* an arbitrary order; removing one does not change what removing another does.
RECURSIVE RemoveAll(_, _, _)
RemoveAll(f, paths, dry_run) ==
    IF paths = {} THEN f
    ELSE LET path == CHOOSE p \in paths : \A q \in paths : Len(q) <= Len(p)
         IN  RemoveAll(RemovePath(f, path, dry_run), paths \ {path}, dry_run)

\* clean_generated: [exit, fs]
CleanGenerated(config, f, package_id, dry_run) ==
    IF package_id # "" /\ ~HasPackage(config, package_id)
    THEN [exit |-> 1, fs |-> f]
    ELSE LET entries == CleanEntries(config, package_id) IN
         IF package_id # "" /\ entries = {} THEN [exit |-> 0, fs |-> f]
         ELSE [exit |-> 0, fs |-> RemoveAll(f, CleanPaths(f, entries), dry_run)]

----------------------------------------------------------------------------
(* Ignore-File Registrar: install_gitignore. *)

RECURSIVE Lines(_)
Lines(entries) ==
    IF entries = <<>> THEN <<>>
    ELSE Head(entries) \o <<NL>> \o Lines(Tail(entries))

StencilSection(config) ==
    <<GITIGNORE_START, NL>> \o Lines(GetGeneratedFiles(config)) \o <<GITIGNORE_END, NL>>

\* ^marker$ under re.MULTILINE: the marker alone on its line, at position i
MarkerLineAt(content, i, marker) ==
    /\ content[i] = marker
    /\ (i = 1 \/ content[i - 1] = NL)
    /\ (i = Len(content) \/ content[i + 1] = NL)

\* a greedy `.*` where the program has `.*?`: up to the last end marker line
FindSectionGreedy(content, from) ==
    LET starts == { i \in from..Len(content) : MarkerLineAt(content, i, GITIGNORE_START) } IN
    IF starts = {} THEN [found |-> FALSE, start |-> 0, end |-> 0]
    ELSE LET i == CHOOSE x \in starts : \A y \in starts : x <= y
             ends == { j \in (i + 1)..Len(content) : MarkerLineAt(content, j, GITIGNORE_END) }
         IN  IF ends = {} THEN [found |-> FALSE, start |-> 0, end |-> 0]
             ELSE LET j == CHOOSE x \in ends : \A y \in ends : x >= y
                  IN  [found |-> TRUE, start |-> i,
                       end |-> IF j < Len(content) THEN j + 1 ELSE j]

\* the leftmost match of the pattern at or after position from: [found, start, end]
FindSection(content, from) ==
    LET starts == { i \in from..Len(content) : MarkerLineAt(content, i, GITIGNORE_START) } IN
    IF starts = {} THEN [found |-> FALSE, start |-> 0, end |-> 0]
    ELSE LET i == CHOOSE x \in starts : \A y \in starts : x <= y
             ends == { j \in (i + 1)..Len(content) : MarkerLineAt(content, j, GITIGNORE_END) }
         IN  IF ends = {} THEN [found |-> FALSE, start |-> 0, end |-> 0]
             ELSE LET j == CHOOSE x \in ends : \A y \in ends : x <= y
                  IN  [found |-> TRUE, start |-> i,
                       end |-> IF j < Len(content) THEN j + 1 ELSE j]

\* pattern.sub(stencil_section, content), from position from on
RECURSIVE SubFrom(_, _, _)
SubFrom(content, from, stencil_section) ==
    LET m == FindSection(content, from) IN
    IF ~m.found THEN SubSeq(content, from, Len(content))
    ELSE SubSeq(content, from, m.start - 1) \o stencil_section
         \o SubFrom(content, m.end + 1, stencil_section)

\* the blank-line separator of the append branch
WithSeparator(content) ==
    IF content # <<>> /\ ~EndsWith(content, <<NL, NL>>)
    THEN (IF ~EndsWith(content, <<NL>>) THEN content \o <<NL>> ELSE content) \o <<NL>>
    ELSE content

\* new_content
NewContent(gi, stencil_section) ==
    IF gi.exists
    THEN IF FindSection(gi.content, 1).found
         THEN SubFrom(gi.content, 1, stencil_section)
         ELSE WithSeparator(gi.content) \o stencil_section
    ELSE stencil_section

\* install_gitignore: the .gitignore it leaves
InstallGitignore(config, gi, dry_run) ==
    IF dry_run THEN gi
    ELSE [exists |-> TRUE, content |-> NewContent(gi, StencilSection(config))]

----------------------------------------------------------------------------
(* main: the dispatch of the gen, clean and install commands.  The pkg      *)
(* argument "" stands for an omitted one.                                   *)

PackageIds(config) == [i \in 1..Len(config.packages) |-> config.packages[i].id]

\* the loop of `gen --all`, leaving at the first package that is not generated
RECURSIVE GenAllLoopStops(_, _, _, _, _, _)
GenAllLoopStops(config, bad, f, ids, dry_run, attempted) ==
    IF ids = <<>> THEN [crashed |-> FALSE, fs |-> f, attempted |-> attempted]
    ELSE LET g == GeneratePackage(config, bad, f, Head(ids), dry_run) IN
         IF g.status # "ok"
         THEN [crashed |-> g.status = "crash", fs |-> g.fs,
               attempted |-> Append(attempted, Head(ids))]
         ELSE GenAllLoopStops(config, bad, g.fs, Tail(ids), dry_run,
                              Append(attempted, Head(ids)))

\* the loop of `gen --all`: [crashed, fs, attempted]
RECURSIVE GenAllLoop(_, _, _, _, _, _)
GenAllLoop(config, bad, f, ids, dry_run, attempted) ==
    IF ids = <<>> THEN [crashed |-> FALSE, fs |-> f, attempted |-> attempted]
    ELSE LET g == GeneratePackage(config, bad, f, Head(ids), dry_run) IN
         IF g.status = "crash"
         THEN [crashed |-> TRUE, fs |-> g.fs, attempted |-> Append(attempted, Head(ids))]
         ELSE GenAllLoop(config, bad, g.fs, Tail(ids), dry_run, Append(attempted, Head(ids)))

\* main for `gen`: [exit, crashed, fs, attempted]
MainGen(config, bad, f, all, pkg, dry_run) ==
    IF ~config.hasPackages
    THEN [exit |-> 1, crashed |-> FALSE, fs |-> f, attempted |-> <<>>]
    ELSE IF ~all /\ pkg = ""
    THEN [exit |-> 0, crashed |-> FALSE, fs |-> f, attempted |-> <<>>]
    ELSE IF config.templates = <<>>
    THEN [exit |-> 1, crashed |-> FALSE, fs |-> f, attempted |-> <<>>]
    ELSE IF all
    THEN LET r == GenAllLoop(config, bad, f, PackageIds(config), dry_run, <<>>) IN
         [exit |-> IF r.crashed THEN 1 ELSE 0, crashed |-> r.crashed,
          fs |-> r.fs, attempted |-> r.attempted]
    ELSE LET g == GeneratePackage(config, bad, f, pkg, dry_run) IN
         [exit |-> IF g.status = "ok" THEN 0 ELSE 1, crashed |-> g.status = "crash",
          fs |-> g.fs, attempted |-> <<pkg>>]

\* package_id = None if (args.all or not args.pkg) else args.pkg
CleanTarget(all, pkg) == IF all \/ pkg = "" THEN "" ELSE pkg

\* main for `clean`, asking for --all or a package
MainCleanUsage(config, f, all, pkg, dry_run) ==
    IF ~config.hasPackages \/ (~all /\ pkg = "") THEN [exit |-> 1, fs |-> f]
    ELSE CleanGenerated(config, f, CleanTarget(all, pkg), dry_run)

\* main for `clean`: [exit, fs]
MainClean(config, f, all, pkg, dry_run) ==
    IF ~config.hasPackages THEN [exit |-> 1, fs |-> f]
    ELSE CleanGenerated(config, f, CleanTarget(all, pkg), dry_run)

----------------------------------------------------------------------------
(* The state machine: one action per command line. *)

PkgArgs == {""} \cup { pk.id : pk \in PackageCatalog }

NoHist == [genPkg |-> "", wrote |-> {}, again |-> FALSE]

Command(cmd, all, pkg, dry_run, exit, crashed, attempted, planned) ==
    [cmd |-> cmd, all |-> all, pkg |-> pkg, dry |-> dry_run, exit |-> exit,
     crashed |-> crashed, attempted |-> attempted, planned |-> planned]

\* the files under the output directory of package pkg
FilesUnder(f, config, pkg) ==
    { p \in f.files : IsPrefixPath(Parts(PkgDir(PackageOf(config, pkg))), p) }

Gen(all, pkg, dry_run) ==
    \E r \in {MainGen(cfg, broken, fs, all, pkg, dry_run)} :
    \E fresh \in {~all /\ ~dry_run /\ r.exit = 0 /\ pkg # "" /\ FilesUnder(fs, cfg, pkg) = {}} :
        /\ fs' = r.fs
        /\ prev' = [fs |-> fs, gitignore |-> gitignore]
        /\ last' = Command("gen", all, pkg, dry_run, r.exit, r.crashed, r.attempted, <<>>)
        /\ hist' = [genPkg |-> IF fresh THEN pkg ELSE "",
                    wrote  |-> IF fresh THEN r.fs.files \ fs.files ELSE {},
                    again  |-> FALSE]
        /\ UNCHANGED <<cfg, broken, gitignore>>

Clean(all, pkg, dry_run) ==
    \E r \in {MainClean(cfg, fs, all, pkg, dry_run)} :
        /\ fs' = r.fs
        /\ prev' = [fs |-> fs, gitignore |-> gitignore]
        /\ last' = Command("clean", all, pkg, dry_run, r.exit, FALSE, <<>>, <<>>)
        /\ hist' = IF last.cmd = "gen" THEN hist ELSE NoHist
        /\ UNCHANGED <<cfg, broken, gitignore>>

Install(dry_run) ==
    /\ gitignore' = InstallGitignore(cfg, gitignore, dry_run)
    /\ prev' = [fs |-> fs, gitignore |-> gitignore]
    /\ last' = Command("install", FALSE, "", dry_run, 0, FALSE, <<>>, <<>>)
    /\ hist' = [genPkg |-> "", wrote |-> {},
                again |-> last.cmd = "install" /\ ~last.dry /\ ~dry_run]
    /\ UNCHANGED <<cfg, broken, fs>>

\* the template list render_templates computes for a package
Plan(pkg) ==
    /\ ContextError(pkg, cfg) = "none"
    /\ last.cmd = "none"
    /\ last' = Command("plan", FALSE, pkg, FALSE, 0, FALSE, <<>>,
                       ApplicableTemplates(cfg.templates, GetTemplateContext(pkg, cfg)))
    /\ UNCHANGED <<cfg, broken, fs, gitignore, prev, hist>>

----------------------------------------------------------------------------
(* Initial states. *)

EmptyTree == [files |-> {}, dirs |-> {<<>>}]
NoGitignore == [exists |-> FALSE, content |-> <<>>]
NoCommand == Command("none", FALSE, "", FALSE, 0, FALSE, <<>>, <<>>)

\* what a user may have put in the output tree beforehand
Seeds ==
    { [kind |-> "file", path |-> << <<"app">>, <<"scripts">>, <<"web.conf">> >>],
      [kind |-> "file", path |-> << <<"app">>, <<"guide", "-web", ".html">> >>],
      [kind |-> "dir",  path |-> << <<"app">>, <<"scripts">> >>] }

TreeOf(S) ==
    [files |-> { s.path : s \in { x \in S : x.kind = "file" } },
     dirs  |-> {<<>>} \cup UNION { Ancestors(s.path) : s \in S }
                      \cup { s.path : s \in { x \in S : x.kind = "dir" } }]

InitialTrees == { TreeOf(S) : S \in { X \in SUBSET Seeds : Cardinality(X) <= MaxSeeds } }

\* the members of S in the order of the sequence `order`
RECURSIVE InOrder(_, _)
InOrder(S, order) ==
    IF order = <<>> THEN <<>>
    ELSE (IF Head(order) \in S THEN <<Head(order)>> ELSE <<>>) \o InOrder(S, Tail(order))

\* the sub-lists of `order` of length at most n
SubLists(order, n) ==
    { InOrder(S, order) : S \in { X \in SUBSET SeqToSet(order) : Cardinality(X) <= n } }

Manifests(templateLists, packageLists) ==
    { [templates |-> t, hasPackages |-> TRUE, packages |-> p] :
        t \in templateLists, p \in packageLists }
    \cup { [templates |-> t, hasPackages |-> FALSE, packages |-> <<>>] : t \in templateLists }

InitCommon ==
    /\ prev = [fs |-> fs, gitignore |-> gitignore]
    /\ last = NoCommand
    /\ hist = NoHist

Init ==
    /\ cfg \in Manifests(SubLists(<<TReadme, TWeb, TSql>>, MaxTemplates),
                         SubLists(<<PkgBad, PkgApp, PkgOps>>, MaxPkgs))
    /\ broken = {TSql.src}
    /\ fs \in InitialTrees
    /\ gitignore = [exists |-> TRUE, content |-> <<"u">>]
    /\ InitCommon

\* the command lines tried: --all (with or without a package), or a package
\* argument alone, or neither
GenArgs == {<<TRUE, "">>} \cup { <<FALSE, pkg>> : pkg \in PkgArgs }
CleanArgs == {<<TRUE, "">>, <<TRUE, "app">>} \cup { <<FALSE, pkg>> : pkg \in PkgArgs }

Next ==
    \/ \E a \in GenArgs, dry_run \in BOOLEAN : Gen(a[1], a[2], dry_run)
    \/ \E a \in CleanArgs, dry_run \in BOOLEAN : Clean(a[1], a[2], dry_run)
    \/ \E dry_run \in BOOLEAN : Install(dry_run)

Spec == Init /\ [][Next]_vars

----------------------------------------------------------------------------
(* The planner on its own: manifests with the templates in any order. *)

PkgSite ==
    [id |-> "site", hasDir |-> FALSE, dir |-> <<>>,
     package_type |-> "doc", package_name |-> <<>>,
     services |-> <<"web">>, docs |-> << <<"guide", ".md">> >>,
     deps_script |-> NoItems, copy_files |-> NoItems]

InitPlan ==
    /\ cfg \in Manifests(SeqsOver(TemplateCatalog, MaxTemplates),
                         { <<pk>> : pk \in PackageCatalog \cup {PkgSite} })
    /\ broken = {}
    /\ fs = EmptyTree
    /\ gitignore = NoGitignore
    /\ InitCommon

NextPlan == \E pkg \in PkgArgs \cup {"site"} : Plan(pkg)

SpecPlan == InitPlan /\ [][NextPlan]_vars

----------------------------------------------------------------------------
(* The registrar on its own: every small .gitignore. *)

\* a line of a .gitignore: a marker alone, a marker with text after it, text,
\* or nothing
LineKinds ==
    { <<GITIGNORE_START>>, <<GITIGNORE_END>>, <<"u">>, <<>>, <<GITIGNORE_START, "u">> }

RECURSIVE LinesUpTo(_)
LinesUpTo(n) ==
    IF n = 0 THEN {<<>>}
    ELSE LET shorter == LinesUpTo(n - 1)
         IN  shorter \cup { Append(q, l) : q \in shorter, l \in LineKinds }

\* "\n".join(lines)
RECURSIVE JoinLines(_)
JoinLines(lines) ==
    IF lines = <<>> THEN <<>>
    ELSE IF Len(lines) = 1 THEN Head(lines)
    ELSE Head(lines) \o <<NL>> \o JoinLines(Tail(lines))

Contents ==
    { JoinLines(q) : q \in LinesUpTo(MaxLines) }
    \cup { JoinLines(q) \o <<NL>> : q \in LinesUpTo(MaxLines) }

InitInstall ==
    /\ cfg \in Manifests({<<TReadme>>}, {<<PkgApp>>})
    /\ broken = {}
    /\ fs = EmptyTree
    /\ gitignore \in {NoGitignore} \cup { [exists |-> TRUE, content |-> c] : c \in Contents }
    /\ InitCommon

NextInstall == \E dry_run \in BOOLEAN : Install(dry_run)

SpecInstall == InitInstall /\ [][NextInstall]_vars

----------------------------------------------------------------------------
(* Properties of the planner (SpecPlan). *)

\* what the manifest says of a package's flags, read off the package itself
FlagOf(package, k) ==
    CASE k = "has_web"      -> \E i \in 1..Len(package.services) : package.services[i] = "web"
      [] k = "has_mysql"    -> \E i \in 1..Len(package.services) : package.services[i] = "mysql"
      [] k = "has_docs"     -> Len(package.docs) > 0
      [] k = "package_name" -> Len(package.package_name) > 0
      [] OTHER              -> FALSE

Selected(tdef, package) ==
    tdef.when.kind = "none"
    \/ \A k \in SeqToSet(tdef.when.names) : FlagOf(package, k)

ExpectedDest(tdef) ==
    IF tdef.hasDest THEN tdef.dest
    ELSE IF Len(tdef.src) > 0 /\ tdef.src[Len(tdef.src)] = ".j2"
         THEN SubSeq(tdef.src, 1, Len(tdef.src) - 1)
         ELSE tdef.src

\* the number of selected templates among the first i of the manifest
SelectedBefore(i, package) ==
    Cardinality({ j \in 1..i : Selected(cfg.templates[j], package) })

\* C7: the template list computed for a package is exactly the manifest-order
\* subsequence of the templates whose `when` is absent or names only flags
\* that are truthy for the package (a name the context lacks counts as
\* falsy); each entry's destination is the template's dest if given, else its
\* src without a trailing ".j2".
C7_ApplicableTemplates ==
    last.cmd = "plan" =>
        LET package == PackageOf(cfg, last.pkg)
            n == Len(cfg.templates)
        IN  /\ Len(last.planned) = SelectedBefore(n, package)
            /\ \A i \in 1..n :
                 Selected(cfg.templates[i], package) =>
                    last.planned[SelectedBefore(i, package)] =
                        [src |-> cfg.templates[i].src, dest |-> ExpectedDest(cfg.templates[i])]

\* C7 witness: a plan for a web package that dropped a template whose flag
\* the context lacks and kept one, with its ".j2" stripped
C7_Witness ==
    /\ last.cmd = "plan"
    /\ cfg.templates = <<TMake, TWeb>>
    /\ last.planned = <<[src |-> <<"web.conf", ".j2">>, dest |-> <<"web.conf">>]>>

\* C8: when the package has documents, three companion templates are in the
\* computed list whatever the manifest's templates are, ahead of the
\* package's own templates.
C8_CompanionTemplates ==
    (last.cmd = "plan" /\ Len(PackageOf(cfg, last.pkg).docs) > 0) =>
        Len(last.planned) >= 3 + SelectedBefore(Len(cfg.templates), PackageOf(cfg, last.pkg))

----------------------------------------------------------------------------
(* Properties of the registrar (SpecInstall). *)

\* C3: install is idempotent: a second install in succession, the manifest
\* unchanged, leaves the ignore file byte-identical to what the first left.
C3_InstallIdempotent ==
    hist.again => gitignore = prev.gitignore

\* token i of c is the whole of its line
AloneOnLine(c, i) ==
    /\ (i = 1 \/ c[i - 1] = NL)
    /\ (i = Len(c) \/ c[i + 1] = NL)

EndLines(c) == { j \in 1..Len(c) : c[j] = GITIGNORE_END /\ AloneOnLine(c, j) }

\* the start marker lines that an end marker line follows
OpenLines(c) ==
    { i \in 1..Len(c) : /\ c[i] = GITIGNORE_START
                        /\ AloneOnLine(c, i)
                        /\ \E j \in EndLines(c) : j > i }

Least(S) == CHOOSE x \in S : \A y \in S : x <= y
Greatest(S) == CHOOSE x \in S : \A y \in S : x >= y

\* the content before the first block
Before(c) == SubSeq(c, 1, Least(OpenLines(c)) - 1)

\* the content after the last block: after the first end marker line that
\* follows the last start marker line, and after the newline that ends it
After(c) ==
    LET j == Least({ x \in EndLines(c) : x > Greatest(OpenLines(c)) })
    IN  SubSeq(c, IF j < Len(c) THEN j + 2 ELSE j + 1, Len(c))

----------------------------------------------------------------------------
(* Properties of the commands (Spec). *)

AllPaths(f) == f.files \cup f.dirs

\* the package roots of the manifest
PackageRoots == { Parts(PkgDir(pk)) : pk \in SeqToSet(cfg.packages) }

\* the entries the last clean kept, and the paths they resolved to
EntriesCleaned ==
    LET target == CleanTarget(last.all, last.pkg) IN
    IF cfg.hasPackages /\ (target = "" \/ HasPackage(cfg, target))
    THEN CleanEntries(cfg, target)
    ELSE {}

ReachedPaths == CleanPaths(prev.fs, EntriesCleaned)

\* a directory that clean found non-empty: one of its entries is still there,
\* or is not a path clean went to
KeptNonEmpty ==
    \A d \in prev.fs.dirs :
        (\E c \in Children(prev.fs, d) : Exists(fs, c) \/ c \notin ReachedPaths)
            => d \in fs.dirs

\* C1 as stated: clean never removes a directory that is non-empty when
\* clean reaches it, and every package's root output directory that was there
\* before clean is there after it.
C1_CleanKeepsRoots ==
    last.cmd = "clean" =>
        /\ KeptNonEmpty
        /\ \A root \in PackageRoots : root \in prev.fs.dirs => root \in fs.dirs

\* C1 amended: clean never removes a directory that is non-empty when clean
\* reaches it, and a package's root output directory is removed only when it
\* is itself one of the generated paths being cleaned (and then only empty).
C1_CleanKeepsNonEmpty ==
    last.cmd = "clean" =>
        /\ KeptNonEmpty
        /\ \A root \in PackageRoots :
             (root \in prev.fs.dirs /\ root \notin fs.dirs) =>
                /\ root \in ReachedPaths
                /\ \A p \in AllPaths(prev.fs) : Under(root, p) => ~Exists(fs, p)

\* C1 witness: a clean that removed something and left a generated directory
\* that still holds an entry
C1_Witness ==
    /\ last.cmd = "clean" /\ ~last.dry
    /\ fs # prev.fs
    /\ \E d \in ReachedPaths : d \in fs.dirs /\ Children(fs, d) # {}

\* the generated path set of a package as the specification defines it: the
\* destinations of the templates its flags select, its copy_files
\* destinations, its scripts directory, its document globs, its archive
OwnEntries(package) ==
    LET names == { DestOf(t) : t \in { x \in SeqToSet(cfg.templates) : Selected(x, package) } }
                 \cup CopyFileNames(package)
                 \cup (IF package.deps_script # <<>> THEN { <<"scripts", SLASH>> } ELSE {})
                 \cup DocGlobs(package)
                 \cup (IF package.package_name # <<>> THEN { package.package_name } ELSE {})
    IN  { PkgDir(package) \o <<SLASH>> \o n : n \in names \ {<<>>} }

\* C2: clean of one package removes only paths of that package's own
\* generated path set.
C2_CleanOwnPathsOnly ==
    (last.cmd = "clean" /\ CleanTarget(last.all, last.pkg) # ""
        /\ HasPackage(cfg, last.pkg)) =>
        AllPaths(prev.fs) \ AllPaths(fs)
            \subseteq CleanPaths(prev.fs, OwnEntries(PackageOf(cfg, last.pkg)))

\* C4 as stated: clean with neither --all nor a package exits non-zero and
\* removes nothing.
C4_CleanNeedsTarget ==
    (last.cmd = "clean" /\ ~last.all /\ last.pkg = "") =>
        last.exit # 0 /\ fs = prev.fs

\* C4 amended: clean with neither --all nor a package cleans every package,
\* as --all does: it exits 0 whenever the manifest has packages, and unless
\* --dry-run is given no file at a generated path of any package is left.
C4_CleanDefaultsToAll ==
    (last.cmd = "clean" /\ ~last.all /\ last.pkg = "") =>
        /\ last.exit = (IF cfg.hasPackages THEN 0 ELSE 1)
        /\ ~last.dry =>
             \A p \in CleanPaths(prev.fs, GeneratedEntries(cfg)) : p \notin fs.files

\* C4 witness: such a clean removed a file
C4_Witness ==
    /\ last.cmd = "clean" /\ ~last.all /\ last.pkg = "" /\ ~last.dry
    /\ prev.fs.files \ fs.files # {}

\* C5: under --dry-run no command changes the output tree or the ignore file.
C5_DryRunWritesNothing ==
    last.dry => fs = prev.fs /\ gitignore = prev.gitignore

\* C5 witness: a dry run of gen for a package that has templates to write
\* and whose output directory does not exist
C5_Witness ==
    /\ last.cmd = "gen" /\ last.dry /\ ~last.all /\ last.exit = 0
    /\ HasPackage(cfg, last.pkg)
    /\ ~Exists(fs, Parts(PkgDir(PackageOf(cfg, last.pkg))))
    /\ ApplicableTemplates(cfg.templates, GetTemplateContext(last.pkg, cfg)) # <<>>

GenAllRan ==
    last.cmd = "gen" /\ last.all /\ cfg.hasPackages /\ cfg.templates # <<>>

\* C6 as stated: gen --all attempts every package of the registry, in
\* manifest order, whatever happens to the packages before it.
C6_GenAllAttemptsAll ==
    GenAllRan => last.attempted = PackageIds(cfg)

\* a template of the manifest that the package's flags select fails to render
RenderFails(package_id) ==
    /\ ContextError(package_id, cfg) = "none"
    /\ \E t \in SeqToSet(cfg.templates) :
         Selected(t, PackageOf(cfg, package_id)) /\ t.src \in broken

\* C6 amended: gen --all attempts the packages in manifest order; a
\* validation error in one does not keep the next from being attempted, but
\* a rendering failure (like any exception that leaves generate_package)
\* ends the loop: the packages after it are not attempted.
C6_GenAllStopsAtCrash ==
    GenAllRan =>
        LET ids == PackageIds(cfg)
            n == Len(last.attempted)
        IN  /\ n <= Len(ids) /\ last.attempted = SubSeq(ids, 1, n)
            /\ n < Len(ids) => last.crashed /\ last.exit # 0
            /\ \A i \in 1..n :
                 /\ (ContextError(ids[i], cfg) # "none" /\ i < Len(ids)) => n > i
                 /\ RenderFails(ids[i]) => n = i /\ last.crashed

\* C6 witness: a package with a validation error, and the one after it
\* attempted
C6_Witness ==
    /\ GenAllRan /\ ~last.dry
    /\ last.attempted = <<"bad", "app">>
    /\ ~last.crashed

\* C10: a successful generate of a package whose output directory held no
\* file, followed by clean of that package, leaves none of the files that
\* generate wrote or copied.
C10_GenCleanRoundTrip ==
    (last.cmd = "clean" /\ ~last.dry /\ ~last.all
        /\ hist.genPkg # "" /\ last.pkg = hist.genPkg) =>
        hist.wrote \cap fs.files = {}

====
